---- MODULE Spec2Model ----
(***************************************************************************)
(* A model of the holiday collector: the country matcher                   *)
(* (utils/matching.py), the Nager holiday client (holidays_api/nager.py)   *)
(* and the data they work on (utils/static_data.py).                       *)
(*                                                                         *)
(* Strings are sequences of code points, so that str.lower(), string       *)
(* comparison and difflib's character matching are computed as Python      *)
(* computes them.  An Optional value is <<>> (None) or <<x>>.  A float     *)
(* ratio 2.0*M/T is the pair <<2M, T>>, compared by cross-multiplication.  *)
(***************************************************************************)
EXTENDS Integers, Sequences, FiniteSets, TLC

None == <<>>
Some(x) == <<x>>

\* Bounds of the model.
MaxCatalog == 2
MaxRetries == 2
MaxCodes == 2
MaxWorkers == 2

----------------------------------------------------------------------------
(* Strings                                                                 *)

\* str.lower() on one code point (ASCII letters).
LowerChar(c) == IF c >= 65 /\ c <= 90 THEN c + 32 ELSE c

Lower(s) == [i \in 1..Len(s) |-> LowerChar(s[i])]

\* Python's s < t on strings: lexicographic by code point.
RECURSIVE StrLess(_, _)
StrLess(s, t) ==
    IF t = <<>> THEN FALSE
    ELSE IF s = <<>> THEN TRUE
    ELSE IF Head(s) # Head(t) THEN Head(s) < Head(t)
    ELSE StrLess(Tail(s), Tail(t))

SetMin(S) == CHOOSE x \in S : \A y \in S : x <= y

SetMax(S) == CHOOSE x \in S : \A y \in S : x >= y

Min2(x, y) == IF x <= y THEN x ELSE y

\* The element of a one-element set.  The({F(x) : x \in {v}}) is F(v) with
\* v computed once, however often F uses it.
The(S) == CHOOSE y \in S : TRUE

----------------------------------------------------------------------------
(* difflib.SequenceMatcher (no junk: autojunk only acts on sequences of    *)
(* 200 or more elements).  Indices are Python's: a[i] is a[i+1] here and   *)
(* ranges are half open.                                                   *)

\* Length of the common run a[i:i+k] = b[j:j+k] inside a[:ahi], b[:bhi].
RECURSIVE RunLen(_, _, _, _, _, _)
RunLen(a, b, i, j, ahi, bhi) ==
    IF i < ahi /\ j < bhi /\ a[i + 1] = b[j + 1]
    THEN 1 + RunLen(a, b, i + 1, j + 1, ahi, bhi)
    ELSE 0

\* Whether block m = <<i, j, k>> is the one find_longest_match prefers to
\* block u: it is longer, or as long and starts earlier in a, or as long,
\* at the same place of a, and starts no later in b.
Preferred(m, u) ==
    \/ m[3] > u[3]
    \/ m[3] = u[3] /\ m[1] < u[1]
    \/ m[3] = u[3] /\ m[1] = u[1] /\ m[2] <= u[2]

BestBlock(blocks) == CHOOSE m \in blocks : \A u \in blocks : Preferred(m, u)

\* SequenceMatcher.find_longest_match: the longest block, of those the one
\* starting earliest in a, and of those the one starting earliest in b;
\* (alo, blo, 0) when nothing matches.
FindLongestMatch(a, b, alo, ahi, blo, bhi) ==
    The({BestBlock(blocks) :
            blocks \in {{<<alo, blo, 0>>}
                        \cup {<<p[1], p[2], RunLen(a, b, p[1], p[2], ahi, bhi)>> :
                                p \in (alo..(ahi - 1)) \X (blo..(bhi - 1))}}})

\* The matches of one queue entry of get_matching_blocks: block m and the
\* pieces to its left and to its right.
RECURSIVE MatchCount(_, _, _, _, _, _)
BlockCount(a, b, alo, ahi, blo, bhi, m) ==
    IF m[3] = 0 THEN 0
    ELSE m[3]
         + (IF alo < m[1] /\ blo < m[2]
            THEN MatchCount(a, b, alo, m[1], blo, m[2]) ELSE 0)
         + (IF m[1] + m[3] < ahi /\ m[2] + m[3] < bhi
            THEN MatchCount(a, b, m[1] + m[3], ahi, m[2] + m[3], bhi) ELSE 0)

\* sum(triple[-1] for triple in self.get_matching_blocks())
MatchCount(a, b, alo, ahi, blo, bhi) ==
    The({BlockCount(a, b, alo, ahi, blo, bhi, m) :
            m \in {FindLongestMatch(a, b, alo, ahi, blo, bhi)}})

\* _calculate_ratio(matches, length)
CalculateRatio(matches, length) ==
    IF length > 0 THEN <<2 * matches, length>> ELSE <<1, 1>>

\* SequenceMatcher(a=a, b=b).ratio()
Ratio(a, b) ==
    CalculateRatio(MatchCount(a, b, 0, Len(a), 0, Len(b)), Len(a) + Len(b))

\* Number of elements of sequence s equal to c.
Occurrences(s, c) == Cardinality({i \in 1..Len(s) : s[i] = c})

\* Sum over the characters of S of min(count in a, count in b).
RECURSIVE CommonCount(_, _, _)
CommonCount(S, a, b) ==
    IF S = {} THEN 0
    ELSE LET c == CHOOSE x \in S : TRUE
         IN  Min2(Occurrences(a, c), Occurrences(b, c)) + CommonCount(S \ {c}, a, b)

\* SequenceMatcher.quick_ratio(): the size of the multiset intersection.
QuickRatio(a, b) ==
    CalculateRatio(CommonCount({a[i] : i \in 1..Len(a)}, a, b), Len(a) + Len(b))

\* SequenceMatcher.real_quick_ratio()
RealQuickRatio(a, b) ==
    CalculateRatio(Min2(Len(a), Len(b)), Len(a) + Len(b))

\* Comparison of two ratios as numbers.
RatioGE(r, q) == r[1] * q[2] >= q[1] * r[2]

RatioEq(r, q) == r[1] * q[2] = q[1] * r[2]

\* A cutoff of 0.5.
CutoffHalf == <<1, 2>>

\* cutoff=0.75 in match_one's call of get_close_matches
Cutoff == <<3, 4>>

\* The test get_close_matches applies to a possibility x for the word:
\* s.set_seq2(word); s.set_seq1(x); the three ratios against the cutoff.
IsClose(word, x) ==
    /\ RatioGE(RealQuickRatio(x, word), Cutoff)
    /\ RatioGE(QuickRatio(x, word), Cutoff)
    /\ RatioGE(Ratio(x, word), Cutoff)

\* Order of the (score, x) tuples that heapq.nlargest compares.
TupleLess(p, q) ==
    \/ ~RatioGE(p[1], q[1])
    \/ RatioEq(p[1], q[1]) /\ StrLess(p[2], q[2])

\* heapq.nlargest(1, result) is max(result): the first tuple (in the order
\* of the list) that no other tuple exceeds; None for an empty list, else
\* Some(the string of that tuple).
Largest(result) ==
    IF result = <<>> THEN None
    ELSE Some(result[SetMin({i \in 1..Len(result) :
                    \A j \in 1..Len(result) : ~TupleLess(result[i], result[j])})][2])

\* The (score, x) tuples get_close_matches collects, in the order of the
\* possibilities.
RECURSIVE CloseTuples(_, _)
CloseTuples(word, possibilities) ==
    IF possibilities = <<>> THEN <<>>
    ELSE (IF IsClose(word, Head(possibilities))
          THEN <<<<Ratio(Head(possibilities), word), Head(possibilities)>>>>
          ELSE <<>>)
         \o CloseTuples(word, Tail(possibilities))

\* difflib.get_close_matches(word, possibilities, n=1, cutoff=0.75):
\* None when the list is empty, else Some(best).
GetCloseMatches(word, possibilities) ==
    The({Largest(result) : result \in {CloseTuples(word, possibilities)}})

----------------------------------------------------------------------------
(* Country names, as sequences of code points.                             *)

\* "United States"
UnitedStates ==
    <<85, 110, 105, 116, 101, 100, 32, 83, 116, 97, 116, 101, 115>>

\* "Canada"
Canada ==
    <<67, 97, 110, 97, 100, 97>>

\* "United Kingdom"
UnitedKingdom ==
    <<85, 110, 105, 116, 101, 100, 32, 75, 105, 110, 103, 100, 111, 109>>

\* "Germany"
Germany ==
    <<71, 101, 114, 109, 97, 110, 121>>

\* "France"
France ==
    <<70, 114, 97, 110, 99, 101>>

\* "Australia"
Australia ==
    <<65, 117, 115, 116, 114, 97, 108, 105, 97>>

\* "India"
India ==
    <<73, 110, 100, 105, 97>>

\* "Brazil"
Brazil ==
    <<66, 114, 97, 122, 105, 108>>

\* "Japan"
Japan ==
    <<74, 97, 112, 97, 110>>

\* "South Africa"
SouthAfrica ==
    <<83, 111, 117, 116, 104, 32, 65, 102, 114, 105, 99, 97>>

\* "Iran"
Iran ==
    <<73, 114, 97, 110>>

\* "Iraq"
Iraq ==
    <<73, 114, 97, 113>>

\* "Mexico"
Mexico ==
    <<77, 101, 120, 105, 99, 111>>

\* "united states"
united_states ==
    <<117, 110, 105, 116, 101, 100, 32, 115, 116, 97, 116, 101, 115>>

\* "Unitd States"
Unitd_States ==
    <<85, 110, 105, 116, 100, 32, 83, 116, 97, 116, 101, 115>>

\* "Nowhere Land"
Nowhere_Land ==
    <<78, 111, 119, 104, 101, 114, 101, 32, 76, 97, 110, 100>>

\* "Ira"
Ira ==
    <<73, 114, 97>>

\* "iran"
iran ==
    <<105, 114, 97, 110>>

\* "mexxico"
mexxico ==
    <<109, 101, 120, 120, 105, 99, 111>>

----------------------------------------------------------------------------
(* The catalog: what the AvailableCountries endpoint answers, and the      *)
(* embedded fallback.  An element of a JSON body is a record ("rec": a     *)
(* JSON object with optional keys name, country, countryCode, code) or a   *)
(* string ("str", its characters in text).  A body is a list of elements,  *)
(* an object (iterating it yields its keys, strings) or a scalar such as   *)
(* null or a number.                                                       *)

Rec(name, country, countryCode, code) ==
    [t |-> "rec", name |-> name, country |-> country,
     countryCode |-> countryCode, code |-> code, text |-> <<>>]

Str(text) ==
    [t |-> "str", name |-> None, country |-> None,
     countryCode |-> None, code |-> None, text |-> text]

Country(code, name) == Rec(Some(name), None, Some(code), None)

FALLBACK_COUNTRIES ==
    [shape |-> "list",
     items |-> << Country("US", UnitedStates), Country("CA", Canada),
                  Country("GB", UnitedKingdom), Country("DE", Germany),
                  Country("FR", France), Country("AU", Australia),
                  Country("IN", India), Country("BR", Brazil),
                  Country("JP", Japan), Country("ZA", SouthAfrica) >>]

\* The keys the normalisation loop looks for: "name", "country".
KeyName ==
    <<110, 97, 109, 101>>

KeyCountry ==
    <<99, 111, 117, 110, 116, 114, 121>>

\* A string that holds neither key: "IR".
TextIR ==
    <<73, 82>>

\* Python's sub in s on strings.
Contains(sub, s) ==
    \E i \in 1..(Len(s) - Len(sub) + 1) : SubSeq(s, i, i + Len(sub) - 1) = sub

\* Elements the service may put in a body.
Elements ==
    { Country("IR", Iran), Country("IQ", Iraq), Country("MX", Mexico),
      Rec(None, Some(Iraq), None, Some("IQ")),
      Rec(Some(Mexico), None, None, None),
      Str(TextIR), Str(KeyCountry) }

RECURSIVE SeqsUpTo(_, _)
SeqsUpTo(S, n) ==
    IF n = 0 THEN {<<>>}
    ELSE LET shorter == SeqsUpTo(S, n - 1)
         IN  shorter \cup {Append(q, x) : q \in shorter, x \in S}

Bodies ==
    {[shape |-> "list", items |-> q] : q \in SeqsUpTo(Elements, MaxCatalog)}
    \cup {[shape |-> "dict", items |-> q] :
            q \in SeqsUpTo({Str(TextIR), Str(KeyCountry)}, MaxCatalog)}
    \cup {[shape |-> "scalar", items |-> <<>>]}

\* What one GET of the catalog can end in: a network error, an error status
\* (raise_for_status), a body that is not JSON, or a JSON body.
Responses ==
    {[kind |-> k, body |-> [shape |-> "scalar", items |-> <<>>]] :
        k \in {"network_error", "error_status", "not_json"}}
    \cup {[kind |-> "ok", body |-> b] : b \in Bodies}

\* Whether the loop body of get_available_countries raises on element d:
\* on a string both tests are substring tests and d.get is an
\* AttributeError.
NormaliseRaises(d) ==
    d.t = "str" /\ ~Contains(KeyName, d.text) /\ Contains(KeyCountry, d.text)

\* if "name" not in d and "country" in d: d["name"] = d.get("country")
NormaliseOne(d) ==
    IF d.t = "rec" /\ d.name = None /\ d.country # None
    THEN [d EXCEPT !.name = d.country]
    ELSE d

\* The try block of get_available_countries on a received response: the
\* catalog that ends up in the cache.
FetchedCatalog(resp) ==
    IF \/ resp.kind # "ok"
       \/ resp.body.shape = "scalar"
       \/ \E i \in 1..Len(resp.body.items) : NormaliseRaises(resp.body.items[i])
    THEN FALLBACK_COUNTRIES
    ELSE [shape |-> resp.body.shape,
          items |-> [i \in 1..Len(resp.body.items) |-> NormaliseOne(resp.body.items[i])]]

----------------------------------------------------------------------------
(* CountryMatcher.match_one                                                *)

\* c.get("name", "")
NameOr(c) == IF c.name = None THEN <<>> ELSE c.name[1]

\* c.get("countryCode") or c.get("code")
CodeOf(c) == IF c.countryCode # None THEN c.countryCode ELSE c.code

Score1 == <<1, 1>>

Score0 == <<0, 1>>

MatchResult(source_name, code, matched, score, method, target_name) ==
    [source_name |-> source_name, code |-> code, matched |-> matched,
     score |-> score, method |-> method, target_name |-> target_name]

\* The result of the exact step for the entry it stops at.
ExactResult(source_name, c) ==
    MatchResult(source_name, CodeOf(c), TRUE, Score1, "exact", c.name)

\* The score of a fuzzy match.
FuzzyScore(source_name, best) == Ratio(Lower(source_name), Lower(best))

\* The fuzzy match on the best name, hits being the entries that carry it:
\* the first of them (next(...) on no entry is a StopIteration).
HitResult(source_name, items, best, hits) ==
    IF hits = {} THEN [raised |-> TRUE, result |-> <<>>]
    ELSE [raised |-> FALSE,
          result |-> <<MatchResult(source_name, CodeOf(items[SetMin(hits)]), TRUE,
                         FuzzyScore(source_name, best), "fuzzy", Some(best))>>]

\* The end of match_one on what get_close_matches returned.
CloseResult(source_name, items, matches) ==
    IF matches = None
    THEN [raised |-> FALSE,
          result |-> <<MatchResult(source_name, None, FALSE, Score0, "none", None)>>]
    ELSE The({HitResult(source_name, items, matches[1], hits) :
                hits \in {{i \in 1..Len(items) : items[i].name = matches}}})

\* The fuzzy step on a catalog of records: get_close_matches over the
\* names, then the entry of the best name.
FuzzyResult(source_name, items) ==
    The({CloseResult(source_name, items, matches) :
            matches \in {GetCloseMatches(source_name,
                            [i \in 1..Len(items) |-> NameOr(items[i])])}})

\* The exact step, stopping at entry c: c.get on an element that is no
\* record is an AttributeError.
ExactStop(source_name, c) ==
    IF c.t # "rec" THEN [raised |-> TRUE, result |-> <<>>]
    ELSE [raised |-> FALSE, result |-> <<ExactResult(source_name, c)>>]

\* An exact loop that compares the names as written.
ExactStopsAtCased(source_name, c) ==
    \/ c.t # "rec"
    \/ NameOr(c) = source_name

\* Whether the exact loop ends at element c: it raises there or matches.
ExactStopsAt(source_name, c) ==
    \/ c.t # "rec"
    \/ Lower(NameOr(c)) = Lower(source_name)

\* match_one after the exact loop, stops being the entries it can end at.
AfterExactLoop(countries, source_name, stops) ==
    IF stops = {} THEN FuzzyResult(source_name, countries.items)
    ELSE ExactStop(source_name, countries.items[SetMin(stops)])

\* match_one on the catalog it got: [raised, result], result holding the
\* MatchResult when it returned.
MatchOne(countries, source_name) ==
    The({AfterExactLoop(countries, source_name, stops) :
            stops \in {{i \in 1..Len(countries.items) :
                          ExactStopsAt(source_name, countries.items[i])}}})

\* match_many on the outcomes of match_one for each name in turn: the first
\* exception ends it.
ManyResult(each) ==
    IF \E i \in 1..Len(each) : each[i].raised
    THEN [raised |-> TRUE, result |-> <<>>]
    ELSE [raised |-> FALSE, result |-> [i \in 1..Len(each) |-> each[i].result[1]]]

RECURSIVE EachMatch(_, _)
EachMatch(countries, names) ==
    IF names = <<>> THEN <<>>
    ELSE <<MatchOne(countries, Head(names))>> \o EachMatch(countries, Tail(names))

MatchMany(countries, names) ==
    The({ManyResult(each) : each \in {EachMatch(countries, names)}})

\* Source names handed to the matcher.
Sources ==
    {united_states, Unitd_States, Nowhere_Land, Ira, iran, Iran, mexxico}

NameLists == {<<>>, <<Iran, Ira>>, <<mexxico, Nowhere_Land>>}

----------------------------------------------------------------------------
(* State                                                                   *)

VARIABLES
    offline,            \* the offline flag of the matcher and the client
    countries_cache,    \* CountryMatcher._countries_cache: None or Some(catalog)
    catalog_requests,   \* GETs of the AvailableCountries endpoint so far
    catalog_response,   \* None, or Some(the response that GET received)
    last_call,          \* the matcher call that returned last
    retries,            \* NagerHolidayClient.retries
    concurrency,        \* NagerHolidayClient.concurrency
    country_codes,      \* the list handed to bulk_get_public_holidays
    service,            \* per code, the answers the holiday endpoint gave so far
    tasks,              \* future_map: one task per submitted code
    results,            \* the results dict of bulk_get_public_holidays
    bulk_pc,            \* "idle", "collecting" or "returned"
    stage,              \* the stage main has reached
    run_pc,             \* "running", or how main ended
    countries_raw,      \* main's countries_raw, as Some(name) or None per record
    ms_country_names,   \* main's ms_country_names
    match_results,      \* main's match_results
    mr_index,           \* the position of the fetch loop in match_results
    fetch_log,          \* the get_public_holidays calls that ended, in order
    fetch,              \* None, or Some(the get_public_holidays call in progress)
    holidays_by_country,\* main's holidays_by_country
    rows,               \* the rows of holidays_all.csv
    artifacts,          \* the files written under the output directory
    page_requests,      \* GETs of the Microsoft locations page so far
    holiday_requests,   \* GETs of the PublicHolidays endpoint by main's client
    table,              \* the table service: created, transactions received
    export              \* the export_csv_to_table call of the run

matcher_vars ==
    <<countries_cache, catalog_requests, catalog_response, last_call>>

holiday_vars ==
    <<retries, concurrency, country_codes, service, tasks, results, bulk_pc>>

run_vars ==
    <<stage, run_pc, countries_raw, ms_country_names, match_results, mr_index,
      fetch_log, fetch, holidays_by_country, rows, artifacts, page_requests,
      holiday_requests, table, export>>

vars == <<offline, matcher_vars, holiday_vars, run_vars>>

\* A call: its name, its argument (a list of names), whether it issued the
\* GET, the catalog it worked on, and whether it raised or what it returned.
Call(op, arg, fetched, catalog, outcome) ==
    [op |-> op, arg |-> arg, fetched |-> fetched, catalog |-> catalog,
     raised |-> outcome.raised, result |-> outcome.result]

NoCall == Call("none", <<>>, FALSE, None, [raised |-> FALSE, result |-> <<>>])

MatcherInit ==
    /\ countries_cache = None
    /\ catalog_requests = 0
    /\ catalog_response = None
    /\ last_call = NoCall

----------------------------------------------------------------------------
(* CountryMatcher                                                          *)

\* A matcher that never finds its cache filled.
NeverCacheHit(cache) == FALSE

\* if self._countries_cache is not None: return self._countries_cache
CacheHit(cache) == cache # None

\* The responses a call of get_available_countries may receive: it issues
\* a GET only with an empty cache and online.
Receivable ==
    IF CacheHit(countries_cache) \/ offline
    THEN {[kind |-> "no_request", body |-> [shape |-> "scalar", items |-> <<>>]]}
    ELSE Responses

\* get_available_countries, as every caller runs it: the cached catalog, or
\* the fallback when offline, or one GET (which receives resp) whose
\* outcome is cached.  It sets the primed matcher state but last_call.
LoadCatalog(resp) ==
    /\ UNCHANGED offline
    /\ IF CacheHit(countries_cache)
       THEN UNCHANGED <<countries_cache, catalog_requests, catalog_response>>
       ELSE IF offline
       THEN /\ countries_cache' = Some(FALLBACK_COUNTRIES)
            /\ UNCHANGED <<catalog_requests, catalog_response>>
       ELSE /\ catalog_requests' = catalog_requests + 1
            /\ catalog_response' = Some(resp)
            /\ countries_cache' = Some(FetchedCatalog(resp))

\* Whether the call that receives resp issues the GET.
Fetches(resp) == resp.kind # "no_request"

GetAvailableCountries ==
    \E resp \in Receivable :
        /\ LoadCatalog(resp)
        /\ last_call' = Call("get_available_countries", <<>>, Fetches(resp),
                             countries_cache', [raised |-> FALSE, result |-> <<>>])

MatchOneCall ==
    \E resp \in Receivable, source_name \in Sources :
        /\ LoadCatalog(resp)
        /\ \E r \in {MatchOne(countries_cache'[1], source_name)} :
              last_call' = Call("match_one", <<source_name>>, Fetches(resp),
                                countries_cache', r)

MatchManyCall ==
    \E resp \in Receivable, names \in NameLists :
        /\ LoadCatalog(resp)
        /\ \E r \in {MatchMany(countries_cache'[1], names)} :
              last_call' = Call("match_many", names, Fetches(resp),
                                countries_cache', r)

----------------------------------------------------------------------------
(* NagerHolidayClient                                                      *)

\* Country codes handed to the client.
Codes == {"US", "CA"}

\* __init__'s defaults: retries=3, concurrency=6.
DefaultRetries == 3

DefaultConcurrency == 6

\* Texts of holiday records, as code points.
\* "2025-01-01"
Date0101 ==
    <<50, 48, 50, 53, 45, 48, 49, 45, 48, 49>>

\* "2025-12-25"
Date1225 ==
    <<50, 48, 50, 53, 45, 49, 50, 45, 50, 53>>

\* "New Year's Day"
NewYearsDay ==
    <<78, 101, 119, 32, 89, 101, 97, 114, 39, 115, 32, 68, 97, 121>>

\* "Christmas Day"
ChristmasDay ==
    <<67, 104, 114, 105, 115, 116, 109, 97, 115, 32, 68, 97, 121>>

\* "Public"
Public ==
    <<80, 117, 98, 108, 105, 99>>

\* A record of the service; the year asked for is 2025 throughout.  A text
\* field holds its characters, <<>> when the key is absent, null or empty;
\* counties and types hold their elements, <<>> when absent, null or empty;
\* countryName and country_name are None when the key is absent, else
\* Some(text).
Holiday(code, date, name) ==
    [date |-> date, localName |-> name, name |-> name, countryCode |-> code,
     fixed |-> TRUE, global |-> TRUE, counties |-> <<>>, types |-> <<Public>>,
     countryName |-> None, country_name |-> None]

NewYear(code) == Holiday(code, Date0101, NewYearsDay)

Christmas(code) == Holiday(code, Date1225, ChristmasDay)

NoData == [shape |-> "none", items |-> <<>>]

\* What one GET of PublicHolidays/{year}/{code} can end in: a network
\* error (requests.get raises), an error status (the RuntimeError for
\* 5xx, raise_for_status for 4xx: both raise in the try block and are
\* caught by the one except clause), or a JSON body: a list of records,
\* or something else (here an object).  A body that is not JSON raises
\* in the same try block and takes the path of the other two.
Outcomes(code) ==
    {[kind |-> k, body |-> NoData] :
        k \in {"network_error", "status_error"}}
    \cup {[kind |-> "ok",
           body |-> [shape |-> "list", items |-> <<NewYear(code), Christmas(code)>>]],
          [kind |-> "ok", body |-> [shape |-> "dict", items |-> <<Christmas(code)>>]]}

\* The simulated record of offline mode.
OfflineHolidays(code) == <<NewYear(code)>>

Task(code) ==
    [code |-> code, state |-> "queued", attempt |-> 0, data |-> NoData,
     value |-> <<>>, error |-> "", collected |-> FALSE]

\* A retry loop that allows one attempt too many.
GivesUpOneLate(attempt, n) == attempt = n + 1

\* except ...: if attempt == self.retries: raise
GivesUp(attempt, n) == attempt = n

\* A get_public_holidays without the shape check.
HolidaysUnchecked(data) == data.items

\* get_public_holidays on the data _request_json returned:
\* if not isinstance(data, list): return []; return data
HolidaysOf(data) == IF data.shape = "list" THEN data.items ELSE <<>>

\* One pass of the loop of _request_json in task tk, its GET ending in o:
\* return on success, re-raise on the last attempt, else sleep and go on.
AfterRequest(tk, o) ==
    IF o.kind = "ok"
    THEN [tk EXCEPT !.attempt = tk.attempt + 1, !.state = "returned",
                    !.data = o.body, !.value = HolidaysOf(o.body)]
    ELSE IF GivesUp(tk.attempt + 1, retries)
    THEN [tk EXCEPT !.attempt = tk.attempt + 1, !.state = "raised", !.error = o.kind]
    ELSE [tk EXCEPT !.attempt = tk.attempt + 1]

\* A client that goes to the endpoint in offline mode as well.
StartedOnline(tk) ==
    IF retries < 1
    THEN [tk EXCEPT !.state = "raised", !.error = "unreachable_retry_logic"]
    ELSE [tk EXCEPT !.state = "running"]

\* get_public_holidays up to the first GET: the simulated record when
\* offline; with no attempt to make (range(1, retries + 1) is empty) the
\* RuntimeError after the loop.
Started(tk) ==
    IF offline
    THEN [tk EXCEPT !.state = "returned", !.value = OfflineHolidays(tk.code)]
    ELSE IF retries < 1
    THEN [tk EXCEPT !.state = "raised", !.error = "unreachable_retry_logic"]
    ELSE [tk EXCEPT !.state = "running"]

Finished(tk) == tk.state \in {"returned", "raised"}

\* A loop body that stores an entry for a failed future as well.
RecordedAlways(res, tk) ==
    [c \in DOMAIN res \cup {tk.code} |-> IF c = tk.code THEN tk.value ELSE res[c]]

\* The loop body over as_completed: results[code] = future.result(), or a
\* warning when the future raised.
Recorded(res, tk) ==
    IF tk.state = "returned"
    THEN [c \in DOMAIN res \cup {tk.code} |-> IF c = tk.code THEN tk.value ELSE res[c]]
    ELSE res

EmptyMap == [c \in {} |-> <<>>]

\* The table service and the export call, before any export.
NoTable == [created |-> FALSE, transactions |-> <<>>]

NoExport ==
    [called |-> FALSE, library |-> FALSE, connection |-> FALSE, upsert |-> FALSE,
     raised |-> FALSE, written |-> 0]

\* The state at the start of main.
RunStart ==
    /\ stage = "Start"
    /\ run_pc = "running"
    /\ countries_raw = <<>>
    /\ ms_country_names = <<>>
    /\ match_results = <<>>
    /\ mr_index = 0
    /\ fetch_log = <<>>
    /\ fetch = None
    /\ holidays_by_country = EmptyMap
    /\ rows = <<>>
    /\ artifacts = {}
    /\ page_requests = 0
    /\ holiday_requests = 0
    /\ table = NoTable
    /\ export = NoExport

HolidayIdle ==
    /\ retries = DefaultRetries
    /\ concurrency = DefaultConcurrency
    /\ country_codes = <<>>
    /\ service = [c \in Codes |-> <<>>]
    /\ tasks = <<>>
    /\ results = EmptyMap
    /\ bulk_pc = "idle"

BulkInit ==
    /\ offline \in BOOLEAN
    /\ MatcherInit
    /\ retries \in 0..MaxRetries
    /\ concurrency \in 1..MaxWorkers
    /\ country_codes \in SeqsUpTo(Codes, MaxCodes)
    /\ service = [c \in Codes |-> <<>>]
    /\ tasks = <<>>
    /\ results = EmptyMap
    /\ bulk_pc = "idle"
    /\ RunStart

\* bulk_get_public_holidays up to the loop: the results dict, the pool and
\* one submitted future per listed code.
Submit ==
    /\ bulk_pc = "idle"
    /\ bulk_pc' = "collecting"
    /\ tasks' = [i \in 1..Len(country_codes) |-> Task(country_codes[i])]
    /\ results' = EmptyMap
    /\ UNCHANGED <<offline, matcher_vars, run_vars, retries, concurrency, country_codes, service>>

\* A pool that starts a queued task whether or not a worker is free.
WorkerTakeUnbounded(i) ==
    /\ bulk_pc = "collecting"
    /\ tasks[i].state = "queued"
    /\ tasks' = [tasks EXCEPT ![i] = Started(tasks[i])]
    /\ UNCHANGED <<offline, matcher_vars, run_vars, retries, concurrency, country_codes, service,
                   results, bulk_pc>>

\* A free worker of the pool takes the oldest queued task.
WorkerTake(i) ==
    /\ bulk_pc = "collecting"
    /\ tasks[i].state = "queued"
    /\ \A j \in 1..(i - 1) : tasks[j].state # "queued"
    /\ Cardinality({j \in 1..Len(tasks) : tasks[j].state = "running"}) < concurrency
    /\ tasks' = [tasks EXCEPT ![i] = Started(tasks[i])]
    /\ UNCHANGED <<offline, matcher_vars, run_vars, retries, concurrency, country_codes, service,
                   results, bulk_pc>>

\* The answers the next GET of task tk may get: the endpoint answers the
\* k-th request for a code the same way whichever task asks.
Answers(tk) ==
    IF Len(service[tk.code]) > tk.attempt
    THEN {service[tk.code][tk.attempt + 1]}
    ELSE Outcomes(tk.code)

\* A running task issues its next GET.
Request(i) ==
    /\ bulk_pc = "collecting"
    /\ tasks[i].state = "running"
    /\ \E o \in Answers(tasks[i]) :
          /\ service' = [service EXCEPT ![tasks[i].code] =
                            IF Len(@) > tasks[i].attempt THEN @ ELSE Append(@, o)]
          /\ tasks' = [tasks EXCEPT ![i] = AfterRequest(tasks[i], o)]
    /\ UNCHANGED <<offline, matcher_vars, run_vars, retries, concurrency, country_codes, results,
                   bulk_pc>>

\* as_completed yields a finished future; the loop body handles it.
Collect(i) ==
    /\ bulk_pc = "collecting"
    /\ Finished(tasks[i])
    /\ ~tasks[i].collected
    /\ results' = Recorded(results, tasks[i])
    /\ tasks' = [tasks EXCEPT ![i].collected = TRUE]
    /\ UNCHANGED <<offline, matcher_vars, run_vars, retries, concurrency, country_codes, service,
                   bulk_pc>>

\* Every future was yielded: the pool is shut down and results returned.
Return ==
    /\ bulk_pc = "collecting"
    /\ \A i \in 1..Len(tasks) : tasks[i].collected
    /\ bulk_pc' = "returned"
    /\ UNCHANGED <<offline, matcher_vars, run_vars, retries, concurrency, country_codes, service,
                   tasks, results>>

BulkNext ==
    \/ Submit
    \/ \E i \in 1..Len(tasks) : WorkerTake(i)
    \/ \E i \in 1..Len(tasks) : Request(i)
    \/ \E i \in 1..Len(tasks) : Collect(i)
    \/ Return

BulkSpec == BulkInit /\ [][BulkNext]_vars

----------------------------------------------------------------------------
(* aggregate_to_csv: the rows written after the header.  A row holds the   *)
(* text of each cell, as csv.writer writes it and csv.DictReader reads it  *)
(* back (None is written as the empty cell); fixed and global are not      *)
(* carried.                                                                *)

\* The characters of a country code.
Chars(code) ==
    CASE code = "US" -> <<85, 83>>
      [] code = "CA" -> <<67, 65>>
      [] code = "GB" -> <<71, 66>>
      [] code = "DE" -> <<68, 69>>
      [] code = "FR" -> <<70, 82>>
      [] code = "AU" -> <<65, 85>>
      [] code = "IN" -> <<73, 78>>
      [] code = "BR" -> <<66, 82>>
      [] code = "JP" -> <<74, 80>>
      [] code = "ZA" -> <<90, 65>>
      [] code = "IR" -> <<73, 82>>
      [] code = "IQ" -> <<73, 81>>
      [] code = "MX" -> <<77, 88>>
      [] code = "None" -> <<78, 111, 110, 101>>

\* The keys in the order opposite to that of sorted().
DescendingCodes(S) ==
    IF S = {} THEN <<>>
    ELSE LET RECURSIVE Down(_)
             Down(T) ==
                 IF T = {} THEN <<>>
                 ELSE <<CHOOSE c \in T : \A d \in T \ {c} : StrLess(Chars(d), Chars(c))>>
                      \o Down(T \ {CHOOSE c \in T :
                                     \A d \in T \ {c} : StrLess(Chars(d), Chars(c))})
         IN  Down(S)

\* sorted(holidays_by_country.items()), the keys of it: the keys are
\* distinct, so the tuples are ordered by their first component.
SortedCodes(S) ==
    IF S = {} THEN <<>>
    ELSE LET RECURSIVE Up(_)
             Up(T) ==
                 IF T = {} THEN <<>>
                 ELSE <<CHOOSE c \in T : \A d \in T \ {c} : StrLess(Chars(c), Chars(d))>>
                      \o Up(T \ {CHOOSE c \in T :
                                   \A d \in T \ {c} : StrLess(Chars(c), Chars(d))})
         IN  Up(S)

\* ";".join(list)
RECURSIVE Join(_)
Join(list) ==
    IF list = <<>> THEN <<>>
    ELSE IF Len(list) = 1 THEN list[1]
    ELSE list[1] \o <<59>> \o Join(Tail(list))

\* h.get("countryName") or h.get("country_name") or ""
CountryNameOf(h) ==
    IF h.countryName # None /\ h.countryName[1] # <<>> THEN h.countryName[1]
    ELSE IF h.country_name # None /\ h.country_name[1] # <<>> THEN h.country_name[1]
    ELSE <<>>

\* The row written for holiday h of country code; a list field that is
\* empty or absent is written as "", which is also the join of no element.
Row(code, h) ==
    [country_code |-> code, country_name |-> CountryNameOf(h), date |-> h.date,
     local_name |-> h.localName, name |-> h.name,
     counties |-> Join(h.counties), types |-> Join(h.types)]

\* The rows of the codes in order, each code's holidays in list order.
RECURSIVE RowsOf(_, _)
RowsOf(codes, by_country) ==
    IF codes = <<>> THEN <<>>
    ELSE [i \in 1..Len(by_country[Head(codes)]) |->
             Row(Head(codes), by_country[Head(codes)][i])]
         \o RowsOf(Tail(codes), by_country)

AggregateToCsv(by_country) ==
    RowsOf(SortedCodes(DOMAIN by_country), by_country)

----------------------------------------------------------------------------
(* export_csv_to_table                                                     *)

\* c.isalnum() on an ASCII character.
IsAlnum(c) ==
    \/ c >= 48 /\ c <= 57
    \/ c >= 65 /\ c <= 90
    \/ c >= 97 /\ c <= 122

IsSpace(c) == c \in {9, 10, 11, 12, 13, 32}

\* str.strip()
RECURSIVE Strip(_)
Strip(s) ==
    IF s = <<>> THEN s
    ELSE IF IsSpace(Head(s)) THEN Strip(Tail(s))
    ELSE IF IsSpace(s[Len(s)]) THEN Strip(SubSeq(s, 1, Len(s) - 1))
    ELSE s

\* _slug keeps the first 40 characters.
SlugLength == 40

\* _slug: the alphanumeric characters, lowercased, the first 40 of them, or
\* "x" when none is left.
Slug(val) ==
    LET kept == SelectSeq(val, IsAlnum)
    IN  IF kept = <<>> THEN <<120>>
        ELSE Lower(SubSeq(kept, 1, Min2(SlugLength, Len(kept))))

\* str(idx) for a positive idx.
RECURSIVE Decimal(_)
Decimal(n) ==
    IF n < 10 THEN <<48 + n>> ELSE Decimal(n \div 10) \o <<48 + (n % 10)>>

\* A membership test that looks at the row key alone.
SeenInAnyPartition(country, rk, seen_keys) == \E k \in seen_keys : k[2] = rk

\* (country, rk) in seen_keys
Seen(country, rk, seen_keys) == <<country, rk>> \in seen_keys

\* The while loop: rk is rk_base, then rk_base_2, rk_base_3, ... until
\* (country, rk) is not in seen_keys.
RECURSIVE FreeRowKey(_, _, _, _)
FreeRowKey(country, rk_base, idx, seen_keys) ==
    IF Seen(country, IF idx = 1 THEN rk_base ELSE rk_base \o <<95>> \o Decimal(idx),
            seen_keys)
    THEN FreeRowKey(country, rk_base, idx + 1, seen_keys)
    ELSE IF idx = 1 THEN rk_base ELSE rk_base \o <<95>> \o Decimal(idx)

\* The part of the date before the first "-": date.split("-")[0]
RECURSIVE YearText(_)
YearText(date) ==
    IF date = <<>> \/ Head(date) = 45 THEN <<>>
    ELSE <<Head(date)>> \o YearText(Tail(date))

\* Whether int(date.split("-")[0]) raises ValueError: the text is not a
\* run of digits (signs, blanks and underscores, which int() accepts in
\* places, do not occur in the dates of the model).
YearRaises(date) ==
    \/ YearText(date) = <<>>
    \/ \E i \in 1..Len(YearText(date)) : YearText(date)[i] < 48 \/ YearText(date)[i] > 57

\* The entity of a row, seen_keys holding the keys of the rows before it.
Entity(row, seen_keys) ==
    [PartitionKey |-> row.country_code,
     RowKey |-> FreeRowKey(row.country_code,
                           Strip(row.date) \o <<95>> \o Slug(Strip(row.name)), 1, seen_keys),
     CountryName |-> row.country_name, Date |-> Strip(row.date),
     LocalName |-> row.local_name, Name |-> Strip(row.name),
     Counties |-> row.counties, Types |-> row.types]

KeysOf(entities) ==
    {<<entities[i].PartitionKey, entities[i].RowKey>> : i \in 1..Len(entities)}

\* The loop over the rows of the file: one entity per row, in order.
RECURSIVE EntitiesOf(_)
EntitiesOf(csv_rows) ==
    IF csv_rows = <<>> THEN <<>>
    ELSE The({Append(before, Entity(csv_rows[Len(csv_rows)], KeysOf(before))) :
                before \in {EntitiesOf(SubSeq(csv_rows, 1, Len(csv_rows) - 1))}})

\* The partitions in the order they first occur (a defaultdict keeps
\* insertion order), each with its entities in order.
RECURSIVE PartitionsOf(_)
PartitionsOf(entities) ==
    IF entities = <<>> THEN <<>>
    ELSE <<SelectSeq(entities, LAMBDA e : e.PartitionKey = entities[1].PartitionKey)>>
         \o PartitionsOf(SelectSeq(entities,
                LAMBDA e : e.PartitionKey # entities[1].PartitionKey))

\* _batch_iter's default size.
BatchSize == 100

\* _batch_iter(items, 100)
RECURSIVE BatchIter(_)
BatchIter(items) ==
    IF items = <<>> THEN <<>>
    ELSE <<SubSeq(items, 1, Min2(BatchSize, Len(items)))>>
         \o BatchIter(SubSeq(items, Min2(BatchSize, Len(items)) + 1, Len(items)))

\* The transactions the export submits, in order: per partition, per
\* batch, one operation per entity.
RECURSIVE Transactions(_)
Transactions(partitions) ==
    IF partitions = <<>> THEN <<>>
    ELSE BatchIter(partitions[1]) \o Transactions(Tail(partitions))

----------------------------------------------------------------------------
(* main: the run of the orchestrator.  Inputs (the command line, the       *)
(* environment, the files and the services) are drawn where main reads     *)
(* them.                                                                   *)

\* The run takes at most this many country names online.
MaxNames == 2

\* The country codes of the catalogs of the model.
AllCodes ==
    {"US", "CA", "GB", "DE", "FR", "AU", "IN", "BR", "JP", "ZA", "IR", "IQ", "MX"}

\* The "country" values of FALLBACK_MICROSOFT_COUNTRIES.
FALLBACK_MICROSOFT_COUNTRIES ==
    <<Some(UnitedStates), Some(Canada), Some(UnitedKingdom), Some(Germany),
      Some(France), Some(Australia), Some(India), Some(Brazil), Some(Japan),
      Some(SouthAfrica)>>

\* main's final guard: United States, Canada, United Kingdom.
MinimalSample == <<Some(UnitedStates), Some(Canada), Some(UnitedKingdom)>>

\* " Iran ", as a cell of a countries file or an attribute of the page.
Iran_padded ==
    <<32, 73, 114, 97, 110, 32>>

\* Country names a countries file or the page may hold.
RunNames == {Iran, iran, Ira, Mexico, Nowhere_Land}

\* What main acquires the countries from: a countries file (missing, of
\* another extension, JSON that is no list, a JSON list of names, a JSON
\* list of records with or without the key "country", CSV rows with None
\* for an empty row), or the page the scraper gets (an error, or the
\* data-countryname attributes found in it).
RawSources ==
    {[kind |-> k, items |-> <<>>] :
        k \in {"file_missing", "file_extension", "json_other", "page_error"}}
    \cup {[kind |-> "json_names", items |-> q] :
            q \in SeqsUpTo(RunNames, MaxNames) \ {<<>>}}
    \cup {[kind |-> "json_records", items |-> q] :
            q \in SeqsUpTo({Some(Iran), Some(Nowhere_Land), None}, MaxNames)}
    \cup {[kind |-> "csv", items |-> q] :
            q \in SeqsUpTo({Some(Iran_padded), Some(Mexico), None}, MaxNames)}
    \cup {[kind |-> "page", items |-> q] :
            q \in SeqsUpTo({Iran_padded, iran, Nowhere_Land}, MaxNames)}

FromFile(source) == source.kind \notin {"page", "page_error"}

\* The scraper's "deduplicate preserving order": the first of the names
\* that are equal when lowercased.
Unique(names) ==
    SelectSeq([i \in 1..Len(names) |->
                  IF \E j \in 1..(i - 1) : Lower(names[j]) = Lower(names[i])
                  THEN <<>> ELSE <<names[i]>>],
              LAMBDA x : x # <<>>)

\* MicrosoftLocationScraper.get_countries, as records' "country" values.
GetCountries(source) ==
    IF offline \/ source.kind = "page_error" THEN FALLBACK_MICROSOFT_COUNTRIES
    ELSE Unique([i \in 1..Len(source.items) |-> Strip(source.items[i])])

\* Whether reading the countries file ends the run with SystemExit.
FileExits(source) == source.kind \in {"file_missing", "file_extension", "json_other"}

\* countries_raw as loaded from the countries file.
LoadedFromFile(source) ==
    IF source.kind = "json_names"
    THEN [i \in 1..Len(source.items) |-> Some(source.items[i])]
    ELSE IF source.kind = "json_records" THEN source.items
    ELSE [i \in 1..Len(SelectSeq(source.items, LAMBDA r : r # None)) |->
             Some(Strip(SelectSeq(source.items, LAMBDA r : r # None)[i][1]))]

\* if not countries_raw: the minimal fallback sample (scraper branch only).
FinalGuard(source, scraped) == IF scraped = <<>> THEN MinimalSample ELSE scraped

\* countries_raw before --limit.
Acquired(source) ==
    IF FromFile(source) THEN LoadedFromFile(source)
    ELSE FinalGuard(source, GetCountries(source))

\* if args.limit: countries_raw = countries_raw[: args.limit]
Limited(raw, limit) ==
    IF limit = 0 THEN raw ELSE SubSeq(raw, 1, Min2(limit, Len(raw)))

\* sorted({...}) on a set of names.
RECURSIVE SortedNames(_)
SortedNames(S) ==
    IF S = {} THEN <<>>
    ELSE <<CHOOSE s \in S : \A u \in S \ {s} : StrLess(s, u)>>
         \o SortedNames(S \ {CHOOSE s \in S : \A u \in S \ {s} : StrLess(s, u)})

\* The files main writes under the output directory.
OutputFiles ==
    [raw |-> <<"microsoft_countries_raw.json">>,
     names |-> <<"microsoft_country_names.json">>,
     catalog |-> <<"available_countries_source.json">>,
     matches |-> <<"country_match_results.json">>,
     all |-> <<"holidays_all.json">>,
     csv |-> <<"holidays_all.csv">>]

\* holidays_{code}.json
HolidaysFile(code) == <<"holidays_.json", code>>

\* Lines 106-146: the countries are acquired, cut to --limit and saved, the
\* names sorted and saved.  SystemExit ends the run before anything is
\* written; a record without "country" is a KeyError after the raw file.
AcquireCountries ==
    /\ run_pc = "running"
    /\ stage = "Start"
    /\ \E source \in RawSources, limit \in 0..MaxNames :
          /\ page_requests' =
                IF ~FromFile(source) /\ ~offline THEN page_requests + 1 ELSE page_requests
          /\ IF FromFile(source) /\ FileExits(source)
             THEN /\ run_pc' = "SystemExit"
                  /\ UNCHANGED <<stage, countries_raw, ms_country_names, artifacts>>
             ELSE /\ countries_raw' = Limited(Acquired(source), limit)
                  /\ offline \/ Len(countries_raw') <= MaxNames
                  /\ IF \E i \in 1..Len(countries_raw') : countries_raw'[i] = None
                     THEN /\ run_pc' = "raised"
                          /\ artifacts' = artifacts \cup {OutputFiles.raw}
                          /\ UNCHANGED <<stage, ms_country_names>>
                     ELSE /\ ms_country_names' =
                                SortedNames({countries_raw'[i][1] :
                                                i \in 1..Len(countries_raw')})
                          /\ artifacts' = artifacts \cup {OutputFiles.raw, OutputFiles.names}
                          /\ stage' = "CountriesAcquired"
                          /\ UNCHANGED run_pc
    /\ UNCHANGED <<offline, matcher_vars, holiday_vars, match_results, mr_index, fetch,
                   fetch_log, holidays_by_country, rows, holiday_requests, table,
                   export>>

\* What the GET of the catalog can end in during a run: an error, a list
\* of records (one of them without a code), or a list of strings.
RunResponses ==
    {[kind |-> "network_error", body |-> [shape |-> "scalar", items |-> <<>>]],
     [kind |-> "ok",
      body |-> [shape |-> "list",
                items |-> <<Country("IR", Iran), Country("IQ", Iraq),
                            Rec(Some(Mexico), None, None, None)>>]],
     [kind |-> "ok", body |-> [shape |-> "list", items |-> <<Str(TextIR)>>]]}

\* Lines 148-156: the catalog is loaded and saved, the names are matched
\* and the results saved.  An exception of match_many ends the run.
MatchCountries ==
    /\ run_pc = "running"
    /\ stage = "CountriesAcquired"
    /\ \E resp \in IF offline
                    THEN {[kind |-> "no_request",
                           body |-> [shape |-> "scalar", items |-> <<>>]]}
                    ELSE RunResponses :
          /\ LoadCatalog(resp)
          /\ \E r \in {MatchMany(countries_cache'[1], ms_country_names)} :
                /\ last_call' = Call("match_many", ms_country_names, Fetches(resp),
                                     countries_cache', r)
                /\ IF r.raised
                   THEN /\ run_pc' = "raised"
                        /\ artifacts' = artifacts \cup {OutputFiles.catalog}
                        /\ UNCHANGED <<stage, match_results>>
                   ELSE /\ match_results' = r.result
                        /\ artifacts' = artifacts \cup {OutputFiles.catalog, OutputFiles.matches}
                        /\ stage' = "CountriesMatched"
                        /\ UNCHANGED run_pc
    /\ UNCHANGED <<holiday_vars, countries_raw, ms_country_names, mr_index, fetch,
                   fetch_log, holidays_by_country, rows, page_requests,
                   holiday_requests, table, export>>

\* Lines 159-160: the client is made with --retry, the mapping is empty.
StartFetching ==
    /\ run_pc = "running"
    /\ stage = "CountriesMatched"
    /\ mr_index = 0
    /\ retries' \in 0..MaxRetries
    /\ mr_index' = 1
    /\ UNCHANGED <<offline, matcher_vars, concurrency, country_codes, service, tasks,
                   results, bulk_pc, stage, run_pc, countries_raw, ms_country_names,
                   match_results, fetch, fetch_log, holidays_by_country, rows,
                   artifacts, page_requests, holiday_requests, table, export>>

\* The result the fetch loop is at.
TheMatch == match_results[mr_index]

\* A loop that skips the unmatched results only.
SkippedIfUnmatched(mr) == ~mr.matched

\* if not mr.matched or not mr.code: continue
Skipped(mr) == ~mr.matched \/ mr.code = None

\* code = mr.code, as the text the URL of the request holds.
FetchCode(mr) == IF mr.code = None THEN "None" ELSE mr.code[1]

SkipResult ==
    /\ run_pc = "running"
    /\ stage = "CountriesMatched"
    /\ mr_index \in 1..Len(match_results)
    /\ fetch = None
    /\ Skipped(TheMatch)
    /\ mr_index' = mr_index + 1
    /\ UNCHANGED <<offline, matcher_vars, holiday_vars, stage, run_pc, countries_raw,
                   ms_country_names, match_results, fetch, fetch_log,
                   holidays_by_country, rows, artifacts, page_requests,
                   holiday_requests, table, export>>

\* holiday_client.get_public_holidays(year, code) is called.
StartFetch ==
    /\ run_pc = "running"
    /\ stage = "CountriesMatched"
    /\ mr_index \in 1..Len(match_results)
    /\ fetch = None
    /\ ~Skipped(TheMatch)
    /\ fetch' = Some(Started(Task(FetchCode(TheMatch))))
    /\ UNCHANGED <<offline, matcher_vars, holiday_vars, stage, run_pc, countries_raw,
                   ms_country_names, match_results, mr_index, fetch_log,
                   holidays_by_country, rows, artifacts, page_requests,
                   holiday_requests, table, export>>

\* "Persia"
Persia ==
    <<80, 101, 114, 115, 105, 97>>

\* Records the endpoint may answer with: one that names its country, one
\* whose countryName is null, one without a date.
Named(code) == [NewYear(code) EXCEPT !.countryName = Some(Persia)]

Blank(code) == [Christmas(code) EXCEPT !.countryName = Some(<<>>)]

Dateless(code) == [Christmas(code) EXCEPT !.date = <<>>]

\* What one GET of PublicHolidays/{year}/{code} can end in during a run:
\* an error, a list of records, or an object.
RunOutcomes(code) ==
    {[kind |-> "network_error", body |-> NoData],
     [kind |-> "ok",
      body |-> [shape |-> "list", items |-> <<NewYear(code), Named(code)>>]],
     [kind |-> "ok",
      body |-> [shape |-> "list", items |-> <<Blank(code), Dateless(code)>>]],
     [kind |-> "ok", body |-> [shape |-> "dict", items |-> <<Christmas(code)>>]]}

\* The answers the next GET of the call may get: the endpoint answers the
\* k-th request for a code the same way in every call.
RunAnswers(tk) ==
    IF Len(service[tk.code]) > tk.attempt
    THEN {service[tk.code][tk.attempt + 1]}
    ELSE RunOutcomes(tk.code)

\* The call in progress issues its next GET.
FetchRequest ==
    /\ run_pc = "running"
    /\ fetch # None
    /\ fetch[1].state = "running"
    /\ \E o \in RunAnswers(fetch[1]) :
          /\ service' = [service EXCEPT ![fetch[1].code] =
                            IF Len(@) > fetch[1].attempt THEN @ ELSE Append(@, o)]
          /\ fetch' = Some(AfterRequest(fetch[1], o))
    /\ holiday_requests' = holiday_requests + 1
    /\ UNCHANGED <<offline, matcher_vars, retries, concurrency, country_codes, tasks,
                   results, bulk_pc, stage, run_pc, countries_raw, ms_country_names,
                   match_results, mr_index, fetch_log, holidays_by_country, rows,
                   artifacts, page_requests, table, export>>

\* h.setdefault("countryName", mr.source_name)
Enriched(h, source_name) ==
    IF h.countryName = None THEN [h EXCEPT !.countryName = Some(source_name)] ELSE h

\* A loop body that records an entry for a failed fetch as well.
StoredAlways(by_country, tk, source_name) ==
    [c \in DOMAIN by_country \cup {tk.code} |->
        IF c = tk.code
        THEN [i \in 1..Len(tk.value) |-> Enriched(tk.value[i], source_name)]
        ELSE by_country[c]]

\* The try block of the fetch loop on the finished call tk: the holidays
\* are enriched and stored under the code; a raised call only logs.
Stored(by_country, tk, source_name) ==
    IF tk.state = "returned"
    THEN [c \in DOMAIN by_country \cup {tk.code} |->
             IF c = tk.code
             THEN [i \in 1..Len(tk.value) |-> Enriched(tk.value[i], source_name)]
             ELSE by_country[c]]
    ELSE by_country

\* The call has ended: the rest of the loop body, and on to the next result.
FinishFetch ==
    /\ run_pc = "running"
    /\ fetch # None
    /\ Finished(fetch[1])
    /\ holidays_by_country' = Stored(holidays_by_country, fetch[1], TheMatch.source_name)
    /\ artifacts' =
          IF fetch[1].state = "returned"
          THEN artifacts \cup {HolidaysFile(fetch[1].code)} ELSE artifacts
    /\ fetch_log' = Append(fetch_log, [mr |-> mr_index, call |-> fetch[1]])
    /\ fetch' = None
    /\ mr_index' = mr_index + 1
    /\ UNCHANGED <<offline, matcher_vars, holiday_vars, stage, run_pc, countries_raw,
                   ms_country_names, match_results, rows, page_requests,
                   holiday_requests, table, export>>

\* Line 176: the loop is over, holidays_all.json is saved.
EndFetching ==
    /\ run_pc = "running"
    /\ stage = "CountriesMatched"
    /\ mr_index = Len(match_results) + 1
    /\ artifacts' = artifacts \cup {OutputFiles.all}
    /\ stage' = "HolidaysFetched"
    /\ UNCHANGED <<offline, matcher_vars, holiday_vars, run_pc, countries_raw,
                   ms_country_names, match_results, mr_index, fetch, fetch_log,
                   holidays_by_country, rows, page_requests, holiday_requests,
                   table, export>>

\* Line 178: aggregate_to_csv writes holidays_all.csv.
Aggregate ==
    /\ run_pc = "running"
    /\ stage = "HolidaysFetched"
    /\ rows' = AggregateToCsv(holidays_by_country)
    /\ artifacts' = artifacts \cup {OutputFiles.csv}
    /\ stage' = "Aggregated"
    /\ UNCHANGED <<offline, matcher_vars, holiday_vars, run_pc, countries_raw,
                   ms_country_names, match_results, mr_index, fetch, fetch_log,
                   holidays_by_country, page_requests, holiday_requests, table,
                   export>>

\* An export that checks nothing before it goes to the table service.
ConfigNeverMissing(library, connection) == FALSE

\* TableServiceClient is None, or no connection string was given nor is
\* one in the environment.
ConfigMissing(library, connection) == ~library \/ ~connection

\* The entities of the first n transactions.
RECURSIVE Written(_, _)
Written(transactions, n) ==
    IF n = 0 THEN 0 ELSE Len(transactions[n]) + Written(transactions, n - 1)

\* export_csv_to_table on the rows of the file: the library present or
\* not, the connection string set or not, the table service accepting
\* the first `accepted` transactions and raising on the next.  It raises
\* on a missing configuration before the table is created, and on a date
\* without a year after that, before any transaction.
ExportCsvToTable(csv_rows, library, connection, upsert, accepted, transactions) ==
    IF ConfigMissing(library, connection)
    THEN [export |-> [called |-> TRUE, library |-> library, connection |-> connection,
                      upsert |-> upsert, raised |-> TRUE, written |-> 0],
          table |-> table]
    ELSE IF \E i \in 1..Len(csv_rows) : YearRaises(Strip(csv_rows[i].date))
    THEN [export |-> [called |-> TRUE, library |-> library, connection |-> connection,
                      upsert |-> upsert, raised |-> TRUE, written |-> 0],
          table |-> [table EXCEPT !.created = TRUE]]
    ELSE [export |-> [called |-> TRUE, library |-> library, connection |-> connection,
                      upsert |-> upsert, raised |-> accepted < Len(transactions),
                      written |-> Written(transactions, accepted)],
          table |-> [created |-> TRUE,
                     transactions |->
                        table.transactions
                        \o [k \in 1..accepted |->
                               [i \in 1..Len(transactions[k]) |->
                                   [mode |-> IF upsert THEN "upsert" ELSE "create",
                                    entity |-> transactions[k][i]]]]]]

\* The optional export on the rows: the table and the record of the call.
\* The transactions are those the rows give, none when a date has no year.
Exported ==
    \E library \in BOOLEAN, connection \in BOOLEAN, upsert \in BOOLEAN,
       transactions \in
           {IF \E i \in 1..Len(rows) : YearRaises(Strip(rows[i].date)) THEN <<>>
            ELSE Transactions(PartitionsOf(EntitiesOf(rows)))} :
        \E accepted \in 0..Len(transactions),
           r \in {ExportCsvToTable(rows, library, connection, upsert,
                                   Len(transactions), transactions)} :
            \/ /\ export' = r.export
               /\ table' = r.table
            \/ /\ accepted < Len(transactions)
               /\ ~r.export.raised
               /\ export' = ExportCsvToTable(rows, library, connection, upsert,
                                             accepted, transactions).export
               /\ table' = ExportCsvToTable(rows, library, connection, upsert,
                                            accepted, transactions).table

\* Lines 180-198: "Done", then the export when --export-azure-table is
\* given; its exceptions are logged.  main returns.
Finish ==
    /\ run_pc = "running"
    /\ stage = "Aggregated"
    /\ stage' = "Done"
    /\ run_pc' = "returned"
    /\ \/ UNCHANGED <<table, export>>
       \/ Exported
    /\ UNCHANGED <<offline, matcher_vars, holiday_vars, countries_raw,
                   ms_country_names, match_results, mr_index, fetch, fetch_log,
                   holidays_by_country, rows, artifacts, page_requests,
                   holiday_requests>>

RunInit ==
    /\ offline \in BOOLEAN
    /\ MatcherInit
    /\ retries = DefaultRetries
    /\ concurrency = DefaultConcurrency
    /\ country_codes = <<>>
    /\ service = [c \in AllCodes \cup {"None"} |-> <<>>]
    /\ tasks = <<>>
    /\ results = EmptyMap
    /\ bulk_pc = "idle"
    /\ RunStart

RunNext ==
    \/ AcquireCountries
    \/ MatchCountries
    \/ StartFetching
    \/ SkipResult
    \/ StartFetch
    \/ FetchRequest
    \/ FinishFetch
    \/ EndFetching
    \/ Aggregate
    \/ Finish

RunSpec == RunInit /\ [][RunNext]_vars

----------------------------------------------------------------------------
(* aggregate_to_csv and export_csv_to_table on their own: a mapping is     *)
(* drawn, aggregated, and the rows exported.                               *)

\* A list of holidays has at most this many records.
MaxRows == 3

TableCodes == {"US", "CA"}

\* "2025-12-25_christmasday"
DateWithSlug ==
    <<50, 48, 50, 53, 45, 49, 50, 45, 50, 53, 95, 99, 104, 114, 105, 115, 116, 109, 97, 115, 100, 97, 121>>

\* "US-CA", "US-NY"
CountyCA ==
    <<85, 83, 45, 67, 65>>

CountyNY ==
    <<85, 83, 45, 78, 89>>

\* "Bank"
Bank ==
    <<66, 97, 110, 107>>

\* Records of a mapping: one with two counties and two types, and one
\* with none and no type, whose date holds an underscore and whose name
\* is "2".
Regional(code) ==
    [Christmas(code) EXCEPT !.counties = <<CountyCA, CountyNY>>,
                            !.types = <<Public, Bank>>]

Exotic(code) ==
    [Christmas(code) EXCEPT !.date = DateWithSlug, !.name = <<50>>, !.types = <<>>]

TableRecords == {Regional("US"), Exotic("US")}

Mappings ==
    UNION {[S -> SeqsUpTo(TableRecords, MaxRows)] : S \in SUBSET TableCodes}

TableInit ==
    /\ offline = FALSE
    /\ MatcherInit
    /\ HolidayIdle
    /\ stage = "Start"
    /\ run_pc = "running"
    /\ countries_raw = <<>>
    /\ ms_country_names = <<>>
    /\ match_results = <<>>
    /\ mr_index = 0
    /\ fetch_log = <<>>
    /\ fetch = None
    /\ holidays_by_country \in Mappings
    /\ rows = <<>>
    /\ artifacts = {}
    /\ page_requests = 0
    /\ holiday_requests = 0
    /\ table = NoTable
    /\ export = NoExport

AggregateToCsvCall ==
    /\ OutputFiles.csv \notin artifacts
    /\ rows' = AggregateToCsv(holidays_by_country)
    /\ artifacts' = artifacts \cup {OutputFiles.csv}
    /\ UNCHANGED <<offline, matcher_vars, holiday_vars, stage, run_pc, countries_raw,
                   ms_country_names, match_results, mr_index, fetch, fetch_log,
                   holidays_by_country, page_requests, holiday_requests, table,
                   export>>

ExportCsvToTableCall ==
    /\ OutputFiles.csv \in artifacts
    /\ ~export.called
    /\ Exported
    /\ UNCHANGED <<offline, matcher_vars, holiday_vars, stage, run_pc, countries_raw,
                   ms_country_names, match_results, mr_index, fetch, fetch_log,
                   holidays_by_country, rows, artifacts, page_requests,
                   holiday_requests>>

TableNext ==
    \/ AggregateToCsvCall
    \/ ExportCsvToTableCall

TableSpec == TableInit /\ [][TableNext]_vars

----------------------------------------------------------------------------
(* Specifications                                                          *)

Init ==
    /\ offline \in BOOLEAN
    /\ MatcherInit
    /\ HolidayIdle
    /\ RunStart

Next ==
    \/ GetAvailableCountries /\ UNCHANGED <<holiday_vars, run_vars>>
    \/ MatchOneCall /\ UNCHANGED <<holiday_vars, run_vars>>
    \/ MatchManyCall /\ UNCHANGED <<holiday_vars, run_vars>>

Spec == Init /\ [][Next]_vars

----------------------------------------------------------------------------
(* Properties of the matcher.  They are stated on the last call, with the  *)
(* 0.75 of the claims written out, not taken from the model of the code.   *)

Threshold == <<3, 4>>

\* The last call was match_one on a catalog of records.
MatchedOnRecords ==
    /\ last_call.op = "match_one"
    /\ \A i \in 1..Len(last_call.catalog[1].items) :
          last_call.catalog[1].items[i].t = "rec"

TheSource == last_call.arg[1]

TheEntries == last_call.catalog[1].items

TheResult == last_call.result[1]

\* Entries whose name equals the source name, compared case-insensitively.
ExactEntries ==
    {i \in 1..Len(TheEntries) :
        /\ TheEntries[i].name # None
        /\ Lower(TheEntries[i].name[1]) = Lower(TheSource)}

\* The similarity of entry i's name to the source name: the ratio that is
\* compared against the threshold.
Similarity(i) == Ratio(NameOr(TheEntries[i]), TheSource)

CloseEntries == {i \in 1..Len(TheEntries) : RatioGE(Similarity(i), Threshold)}

\* C3: a source name that equals a catalog name case-insensitively yields
\* matched, exact, score 1.0, with the code and name of the (first) entry
\* of that name.
C3_ExactMatch ==
    (MatchedOnRecords /\ ExactEntries # {}) =>
        /\ ~last_call.raised
        /\ TheResult.matched
        /\ TheResult.method = "exact"
        /\ TheResult.score = <<1, 1>>
        /\ TheResult.source_name = TheSource
        /\ TheResult.code = CodeOf(TheEntries[SetMin(ExactEntries)])
        /\ TheResult.target_name = TheEntries[SetMin(ExactEntries)].name

\* A source name written in another case than the catalog name was matched.
C3_Witness ==
    /\ MatchedOnRecords
    /\ ExactEntries # {}
    /\ ~last_call.raised
    /\ TheResult.target_name # Some(TheSource)
    /\ TheResult.method = "exact"

\* C4: with no exact match and exactly one catalog name at similarity
\* >= 0.75, the result is that candidate, fuzzy, and its score is the
\* ratio that was compared against the threshold.
C4_FuzzyScoreIsComparedRatio ==
    (/\ MatchedOnRecords
     /\ ExactEntries = {}
     /\ Cardinality({TheEntries[i].name : i \in CloseEntries}) = 1) =>
        /\ ~last_call.raised
        /\ TheResult.matched
        /\ TheResult.method = "fuzzy"
        /\ \E i \in CloseEntries :
              /\ TheResult.target_name = TheEntries[i].name
              /\ RatioEq(TheResult.score, Similarity(i))
        /\ TheResult.code =
              CodeOf(TheEntries[SetMin({i \in CloseEntries :
                        TheEntries[i].name = TheResult.target_name})])

\* C5: with no exact match and every catalog name below 0.75, the result
\* is matched=false, code=null, score=0.0, method=none, target_name=null.
C5_NoMatch ==
    (MatchedOnRecords /\ ExactEntries = {} /\ CloseEntries = {}) =>
        /\ ~last_call.raised
        /\ TheResult = [source_name |-> TheSource, code |-> None, matched |-> FALSE,
                        score |-> <<0, 1>>, method |-> "none", target_name |-> None]

\* match_one found nothing in a catalog that holds names.
C5_Witness ==
    /\ MatchedOnRecords
    /\ TheEntries # <<>>
    /\ ExactEntries = {}
    /\ CloseEntries = {}
    /\ ~last_call.raised
    /\ TheResult.method = "none"

\* Entries of maximal similarity among those at or above the threshold.
BestEntries ==
    {i \in CloseEntries : \A j \in CloseEntries : RatioGE(Similarity(i), Similarity(j))}

\* C6: with no exact match, the fuzzy step selects the first entry, in
\* catalog order, among those of maximal similarity >= 0.75.
C6_FirstOfTies ==
    (MatchedOnRecords /\ ExactEntries = {} /\ CloseEntries # {}) =>
        /\ ~last_call.raised
        /\ TheResult.code = CodeOf(TheEntries[SetMin(BestEntries)])
        /\ TheResult.target_name = TheEntries[SetMin(BestEntries)].name

\* C7: every MatchResult has matched iff code is set, exact implies score
\* 1.0, and none implies no code and score 0.0.
C7_ResultInvariant ==
    (last_call.op = "match_one" /\ ~last_call.raised) =>
        /\ TheResult.matched <=> TheResult.code # None
        /\ TheResult.method = "exact" => TheResult.score = <<1, 1>>
        /\ TheResult.method = "none" =>
              (TheResult.code = None /\ TheResult.score = <<0, 1>>)

\* C8: the catalog source is fetched at most once, and once the catalog is
\* cached every later call works on that same catalog without a request.
C8_FetchedOnceThenStable ==
    [][/\ catalog_requests' <= 1
       /\ countries_cache # None =>
            /\ countries_cache' = countries_cache
            /\ last_call'.catalog = countries_cache
            /\ ~last_call'.fetched
            /\ catalog_requests' = catalog_requests]_vars

\* An online call was served from the cache that an earlier call's single
\* request filled.
C8_Witness ==
    /\ catalog_requests = 1
    /\ last_call.op = "match_many"
    /\ ~last_call.fetched
    /\ last_call.catalog = countries_cache

\* A received response that is a fetch failure: an error, or a body that
\* is not a list of records.
FetchFailed(resp) ==
    \/ resp.kind # "ok"
    \/ resp.body.shape # "list"
    \/ \E i \in 1..Len(resp.body.items) : resp.body.items[i].t # "rec"

\* C9: after any catalog fetch failure the cache holds the embedded
\* fallback catalog, and neither get_available_countries nor a later
\* match_one raises.
C9_FallbackOnFailure ==
    (catalog_response # None /\ FetchFailed(catalog_response[1])) =>
        /\ countries_cache = Some(FALLBACK_COUNTRIES)
        /\ ~last_call.raised

----------------------------------------------------------------------------
(* Properties of the holiday client, under BulkSpec.  Served(tk) is what   *)
(* the endpoint answered to the requests for the task's code, in order.    *)

Served(tk) == service[tk.code]

\* C1: when bulk_get_public_holidays has returned, the mapping has no key
\* for a code whose fetch raised, and holds the fetched records for every
\* code whose fetch returned; every listed code was fetched to its end.
C1_BulkResults ==
    bulk_pc = "returned" =>
        /\ Len(tasks) = Len(country_codes)
        /\ DOMAIN results \subseteq {country_codes[i] : i \in 1..Len(country_codes)}
        /\ \A i \in 1..Len(tasks) :
              /\ tasks[i].code = country_codes[i]
              /\ tasks[i].state \in {"returned", "raised"}
              /\ tasks[i].state = "raised" => tasks[i].code \notin DOMAIN results
              /\ tasks[i].state = "returned" =>
                    /\ tasks[i].code \in DOMAIN results
                    /\ results[tasks[i].code] = tasks[i].value
                    /\ ~offline =>
                          /\ Served(tasks[i])[tasks[i].attempt].kind = "ok"
                          /\ Served(tasks[i])[tasks[i].attempt].body.shape = "list" =>
                                results[tasks[i].code] =
                                    Served(tasks[i])[tasks[i].attempt].body.items

\* The call returned with one code failed for good and another code
\* recorded after a transient failure.
C1_Witness ==
    /\ bulk_pc = "returned"
    /\ \E i, j \in 1..Len(tasks) :
          /\ tasks[i].state = "raised"
          /\ tasks[i].attempt >= 2
          /\ tasks[j].state = "returned"
          /\ tasks[j].attempt >= 2
          /\ tasks[j].value # <<>>
          /\ DOMAIN results = {tasks[j].code}

\* C2: online, a fetch issues at most `retries` requests, goes on after a
\* failure of any kind and only after a failure, returns the data of the
\* first successful request, and after `retries` failures raises the error
\* of the last request.
C2_RetryThenLastError ==
    ~offline =>
        \A i \in 1..Len(tasks) :
            /\ tasks[i].attempt <= retries
            /\ tasks[i].attempt <= Len(Served(tasks[i]))
            /\ \A k \in 1..(tasks[i].attempt - 1) : Served(tasks[i])[k].kind # "ok"
            /\ tasks[i].state = "queued" => tasks[i].attempt = 0
            /\ tasks[i].state = "running" =>
                  /\ tasks[i].attempt < retries
                  /\ tasks[i].attempt >= 1 =>
                        Served(tasks[i])[tasks[i].attempt].kind # "ok"
            /\ tasks[i].state = "returned" =>
                  /\ tasks[i].attempt >= 1
                  /\ Served(tasks[i])[tasks[i].attempt].kind = "ok"
                  /\ tasks[i].data = Served(tasks[i])[tasks[i].attempt].body
            /\ (tasks[i].state = "raised" /\ retries >= 1) =>
                  /\ tasks[i].attempt = retries
                  /\ Served(tasks[i])[retries].kind # "ok"
                  /\ tasks[i].error = Served(tasks[i])[retries].kind

\* A fetch retried an error status and then raised another, later error.
C2_Witness ==
    /\ ~offline
    /\ \E i \in 1..Len(tasks) :
          /\ tasks[i].state = "raised"
          /\ tasks[i].attempt = retries
          /\ retries >= 2
          /\ Served(tasks[i])[1].kind = "status_error"
          /\ tasks[i].error = "network_error"

\* C10: a successful response that is a list of records is returned
\* unchanged and in order; a successful response of another shape gives
\* the empty list, and the fetch does not raise.
C10_ShapeOfSuccess ==
    ~offline =>
        \A i \in 1..Len(tasks) :
            (/\ tasks[i].state \in {"returned", "raised"}
             /\ tasks[i].attempt >= 1
             /\ Served(tasks[i])[tasks[i].attempt].kind = "ok") =>
                /\ tasks[i].state = "returned"
                /\ Served(tasks[i])[tasks[i].attempt].body.shape = "list" =>
                      tasks[i].value = Served(tasks[i])[tasks[i].attempt].body.items
                /\ Served(tasks[i])[tasks[i].attempt].body.shape # "list" =>
                      tasks[i].value = <<>>

\* One fetch returned the records of a list, another the empty list for a
\* response that was an object.
C10_Witness ==
    /\ ~offline
    /\ \E i, j \in 1..Len(tasks) :
          /\ tasks[i].state = "returned"
          /\ Served(tasks[i])[tasks[i].attempt].body.shape = "dict"
          /\ tasks[i].value = <<>>
          /\ tasks[j].state = "returned"
          /\ tasks[j].value = <<NewYear(tasks[j].code), Christmas(tasks[j].code)>>

\* Tasks whose fetch is in progress.
InProgress == {i \in 1..Len(tasks) : tasks[i].state = "running"}

\* C20: during bulk_get_public_holidays there is exactly one task per
\* listed code, at most `concurrency` fetches are in progress at any
\* moment, and the call has returned only when every task has finished,
\* returned or raised.
C20_BoundedPoolJoinsAll ==
    /\ Cardinality(InProgress) <= concurrency
    /\ bulk_pc # "idle" =>
          /\ Len(tasks) = Len(country_codes)
          /\ \A i \in 1..Len(tasks) : tasks[i].code = country_codes[i]
    /\ bulk_pc = "returned" =>
          \A i \in 1..Len(tasks) : Finished(tasks[i]) /\ tasks[i].collected

\* The pool is full while a listed code still waits for a worker.
C20_Witness ==
    /\ bulk_pc = "collecting"
    /\ Cardinality(InProgress) = concurrency
    /\ \E i \in 1..Len(tasks) : tasks[i].state = "queued"


----------------------------------------------------------------------------
(* Properties of the run, under RunSpec.                                   *)

\* The results the fetch loop fetches for: matched, with a code.
FetchedFor == {i \in 1..Len(match_results) :
                 match_results[i].matched /\ match_results[i].code # None}

\* The codes of the results with matched=true.
MatchedCodes == {match_results[i].code[1] : i \in FetchedFor}

\* C11: every key of the holiday mapping is the code of a result with
\* matched=true, every fetch that was made or is under way is for such a
\* result and its code, and a result with matched=false is passed over
\* without a fetch.
C11_KeysFromMatched ==
    /\ DOMAIN holidays_by_country \subseteq MatchedCodes
    /\ \A k \in 1..Len(fetch_log) :
          /\ fetch_log[k].mr \in FetchedFor
          /\ match_results[fetch_log[k].mr].code = Some(fetch_log[k].call.code)
    /\ fetch # None =>
          /\ mr_index \in FetchedFor
          /\ match_results[mr_index].code = Some(fetch[1].code)
    /\ \A i \in 1..Len(match_results) :
          ~match_results[i].matched => \A k \in 1..Len(fetch_log) : fetch_log[k].mr # i

\* The loop is over: one name was not matched and passed over, another
\* was matched and its holidays are in the mapping.
C11_Witness ==
    /\ stage = "HolidaysFetched"
    /\ \E i, j \in 1..Len(match_results) :
          /\ ~match_results[i].matched
          /\ i < j
          /\ match_results[j].matched
          /\ match_results[j].code # None
          /\ match_results[j].code[1] \in DOMAIN holidays_by_country
          /\ holidays_by_country[match_results[j].code[1]] # <<>>

\* The calls of the log for code c.
CallsFor(c) == {k \in 1..Len(fetch_log) : fetch_log[k].call.code = c}

\* The country codes of the rows.
RowCodes == {rows[i].country_code : i \in 1..Len(rows)}

StoredCall(c) ==
    fetch_log[SetMax({k \in CallsFor(c) : fetch_log[k].call.state = "returned"})]

\* C13: after the fetch stage, a record that was fetched without a country
\* name carries the source name of the result it was fetched for, and a
\* record fetched with a non-empty country name still has that name.
C13_EnrichmentAdditive ==
    stage \in {"HolidaysFetched", "Aggregated", "Done"} =>
        \A c \in DOMAIN holidays_by_country :
            \A i \in 1..Len(holidays_by_country[c]) :
                /\ CountryNameOf(StoredCall(c).call.value[i]) = <<>> =>
                      CountryNameOf(holidays_by_country[c][i]) =
                         match_results[StoredCall(c).mr].source_name
                /\ CountryNameOf(StoredCall(c).call.value[i]) # <<>> =>
                      CountryNameOf(holidays_by_country[c][i]) =
                         CountryNameOf(StoredCall(c).call.value[i])

\* C15: every row of the flat aggregation has a non-empty country code and
\* a non-empty date.
C15_RowsCarryCodeAndDate ==
    \A i \in 1..Len(rows) : rows[i].country_code # "" /\ rows[i].date # <<>>

\* The files main writes in every run that gets to the export.
PipelineFiles == {OutputFiles.raw, OutputFiles.names, OutputFiles.catalog, OutputFiles.matches, OutputFiles.all, OutputFiles.csv}

\* C17: an export call that finds the library or the connection string
\* missing raises with the table untouched (not created, no transaction),
\* and in main it is made when all pipeline files are written, changes
\* none of them nor the rows or the mapping, and main returns.
C17_MissingConfigRaisesFirst ==
    [][(/\ ~export.called
        /\ export'.called
        /\ ~export'.library \/ ~export'.connection) =>
            /\ export'.raised
            /\ export'.written = 0
            /\ table = NoTable
            /\ table' = NoTable
            /\ PipelineFiles \subseteq artifacts
            /\ artifacts' = artifacts
            /\ rows' = rows
            /\ holidays_by_country' = holidays_by_country
            /\ stage' = "Done"
            /\ run_pc' = "returned"]_vars

\* A run with rows to export ended with the export raised for want of a
\* connection string, the library being there.
C17_Witness ==
    /\ run_pc = "returned"
    /\ export.called
    /\ export.library
    /\ ~export.connection
    /\ export.raised
    /\ rows # <<>>
    /\ table = NoTable

C19_EveryRunReachesDone ==
    run_pc # "running" => stage = "Done"

----------------------------------------------------------------------------
(* Properties of the aggregation and the export, under TableSpec.          *)

\* The rows of country code c, in file order.
PartRows(c) == SelectSeq(rows, LAMBDA r : r.country_code = c)

\* The elements of a list with ";" between them, built from the end.
RECURSIVE SemiColoned(_)
SemiColoned(list) ==
    IF list = <<>> THEN <<>>
    ELSE IF Len(list) = 1 THEN list[1]
    ELSE SemiColoned(SubSeq(list, 1, Len(list) - 1)) \o <<59>> \o list[Len(list)]

\* C14: the rows are in ascending order of country code by code point;
\* the rows of a code are its holidays, one row each, in the order of the
\* list; counties and types are their elements joined by ";", the empty
\* text for an empty or absent list.
C14_SortedStableJoined ==
    OutputFiles.csv \in artifacts =>
        /\ \A i, j \in 1..Len(rows) :
              i < j => ~StrLess(Chars(rows[j].country_code), Chars(rows[i].country_code))
        /\ \A i \in 1..Len(rows) : rows[i].country_code \in DOMAIN holidays_by_country
        /\ \A c \in DOMAIN holidays_by_country :
              /\ Len(PartRows(c)) = Len(holidays_by_country[c])
              /\ \A k \in 1..Len(holidays_by_country[c]) :
                    /\ PartRows(c)[k].date = holidays_by_country[c][k].date
                    /\ PartRows(c)[k].name = holidays_by_country[c][k].name
                    /\ PartRows(c)[k].local_name = holidays_by_country[c][k].localName
                    /\ PartRows(c)[k].counties =
                          SemiColoned(holidays_by_country[c][k].counties)
                    /\ PartRows(c)[k].types =
                          SemiColoned(holidays_by_country[c][k].types)

\* Two codes were aggregated, CA before US; the rows of US are two
\* holidays in list order, the first with two counties, the second with
\* none.
C14_Witness ==
    /\ OutputFiles.csv \in artifacts
    /\ DOMAIN holidays_by_country = {"US", "CA"}
    /\ Len(rows) = 3
    /\ rows[1].country_code = "CA"
    /\ rows[2].country_code = "US"
    /\ rows[2].counties = CountyCA \o <<59>> \o CountyNY
    /\ rows[3].country_code = "US"
    /\ rows[3].counties = <<>>
    /\ rows[3].date # rows[2].date

\* All operations the table received, in order.
RECURSIVE Flat(_)
Flat(seqs) == IF seqs = <<>> THEN <<>> ELSE seqs[1] \o Flat(Tail(seqs))

\* The row keys given in partition c, in order.
PartKeys(c) ==
    [j \in 1..Len(SelectSeq(Flat(table.transactions),
                            LAMBDA op : op.entity.PartitionKey = c)) |->
        SelectSeq(Flat(table.transactions),
                  LAMBDA op : op.entity.PartitionKey = c)[j].entity.RowKey]

\* date_slug of a row, and date_slug with the suffix _k for k >= 2.
BaseOf(r) == r.date \o <<95>> \o Slug(r.name)

Suffixed(base, k) == IF k = 1 THEN base ELSE base \o <<95>> \o Decimal(k)

\* Row j of partition c is the Rank-th of its date and name slug.
Rank(c, j) ==
    Cardinality({i \in 1..j : BaseOf(PartRows(c)[i]) = BaseOf(PartRows(c)[j])})

\* The export was made and every transaction accepted.
ExportedAll == export.called /\ ~export.raised

\* C16 as stated: per partition, every row has its entity, the keys are
\* pairwise different, and the k-th row of a date and name slug has the
\* key date_slug for k = 1 and date_slug_k for k >= 2.
C16_KthCollisionGetsK ==
    ExportedAll =>
        \A c \in RowCodes :
            /\ Len(PartKeys(c)) = Len(PartRows(c))
            /\ \A i, j \in 1..Len(PartKeys(c)) :
                  i < j => PartKeys(c)[i] # PartKeys(c)[j]
            /\ \A j \in 1..Len(PartKeys(c)) :
                  PartKeys(c)[j] = Suffixed(BaseOf(PartRows(c)[j]), Rank(c, j))

\* C16 as amended: per partition, every row has its entity, the keys are
\* pairwise different, and a row has the key date_slug unless an earlier
\* row of the partition has it, and else date_slug_m for the least m >= 2
\* whose key no earlier row of the partition has; when no date of the
\* partition holds "_", that is date_slug_k for the k-th row of a date and
\* name slug.  Other partitions do not enter.
C16_FirstFreeKey ==
    ExportedAll =>
        \A c \in RowCodes :
            /\ Len(PartKeys(c)) = Len(PartRows(c))
            /\ \A i, j \in 1..Len(PartKeys(c)) :
                  i < j => PartKeys(c)[i] # PartKeys(c)[j]
            /\ \A j \in 1..Len(PartKeys(c)) :
                  \E m \in 1..j :
                      /\ PartKeys(c)[j] = Suffixed(BaseOf(PartRows(c)[j]), m)
                      /\ \A n \in 1..(m - 1) :
                            \E i \in 1..(j - 1) :
                                PartKeys(c)[i] = Suffixed(BaseOf(PartRows(c)[j]), n)
            /\ (\A i \in 1..Len(PartRows(c)) :
                    \A p \in 1..Len(PartRows(c)[i].date) : PartRows(c)[i].date[p] # 95) =>
                  \A j \in 1..Len(PartKeys(c)) :
                      PartKeys(c)[j] = Suffixed(BaseOf(PartRows(c)[j]), Rank(c, j))

\* Three rows of one date and name in partition US got date_slug,
\* date_slug_2 and date_slug_3, and the row of that date and name in
\* partition CA got date_slug.
C16_Witness ==
    /\ ExportedAll
    /\ RowCodes = {"US", "CA"}
    /\ Len(PartKeys("US")) = 3
    /\ PartKeys("US")[1] = BaseOf(PartRows("US")[1])
    /\ PartKeys("US")[2] = PartKeys("US")[1] \o <<95, 50>>
    /\ PartKeys("US")[3] = PartKeys("US")[1] \o <<95, 51>>
    /\ PartKeys("CA")[1] = PartKeys("US")[1]

----------------------------------------------------------------------------
(* The writes of the result mapping, under BulkSpec.  The loop body over   *)
(* as_completed writes results[code] when it handles a future that         *)
(* returned: each task that is collected in state "returned" is one write. *)

\* The tasks whose result was written under code c.
WritesOf(c) ==
    {i \in 1..Len(tasks) :
        tasks[i].collected /\ tasks[i].state = "returned" /\ tasks[i].code = c}

\* C21: for any list of codes and any completion order, the entry of a
\* code is written at most once: no entry is written a second time or
\* overwritten with another task's result.
C21_WrittenOncePerCode ==
    \A c \in Codes : Cardinality(WritesOf(c)) <= 1

----------------------------------------------------------------------------
(* The acquisition of the countries, under RunSpec.                        *)

\* C22: whenever the acquisition fails or yields an empty list, from the
\* scraper or from the countries file, the run goes on with a non-empty
\* list of names: no run ends during the acquisition, and past the
\* acquisition the raw list and the list of names are not empty.
C22_FallbackOnEmptyOrFailed ==
    /\ stage = "Start" => run_pc = "running"
    /\ stage # "Start" => countries_raw # <<>> /\ ms_country_names # <<>>

====
